---- MODULE Spec2Model ----
(***************************************************************************)
(* Shopify -> Google Sheets order exporter (src/main.py) and the one-shot  *)
(* fulfilment sync script (src/sync_old_orders.py), for ONE store.          *)
(*                                                                         *)
(* The ledger is the store's Sheet1: a sequence of rows.  Of a row's 12    *)
(* cells A..L the model keeps column B (`ref`, the order name) and column  *)
(* L (`marker`, the status marker); columns A, C..K are written together   *)
(* with B and carry no decision, so they travel with `ref`.                *)
(*                                                                         *)
(* Every call of the Sheets API is one atomic step; a webhook handler, a   *)
(* sweep and the script are sequences of such steps.  The webhook service  *)
(* may run as several worker processes, and the script is a process of its *)
(* own, so steps of different processes interleave.  Every API call may    *)
(* fail (raise).                                                           *)
(***************************************************************************)
EXTENDS Integers, Sequences, FiniteSets, TLC

VARIABLES
    sheet,       \* Sheet1 of the store's spreadsheet: Seq of [ref, marker]
    req,         \* per worker: the webhook request in hand and its locals
    sync,        \* the sync_old_orders.py process and its locals
    deliveries,  \* webhook deliveries received so far
    runs,        \* runs of sync_old_orders.py started so far
    faults,      \* API calls that have failed so far
    city         \* a call of get_corrected_city: its arguments and its result

vars == <<sheet, req, sync, deliveries, runs, faults, city>>

----------------------------------------------------------------------------
(* Bounds *)

MaxDeliveries == 2
MaxRuns == 1
MaxFaults == 1
MaxInitRows == 2

Workers == {"w1", "w2"}
Refs == {"#1001", "#1002", "#1003"}

----------------------------------------------------------------------------
(* Values *)

TRIGGER_TAG == "pc"

FULFILLED == "FULFILLED"
CANCELLED == "CANCELLED"
Markers == {"", FULFILLED, CANCELLED}

\* financial_status values an order can carry; the first is one the spec accepts
FinancialStatuses == {"paid", "refunded"}
AcceptedFinancial == {"paid", "pending", "unpaid"}

\* The webhook body, as far as the handler reads it.  `tags` is the set of
\* the order's tags after split/strip/lower; cancelled_at and closed_at are
\* read for truthiness only.
Orders ==
    [name : Refs, tags : {{}, {TRIGGER_TAG}}, cancelled_at : BOOLEAN,
     fulfilled : BOOLEAN, closed_at : BOOLEAN, financial_status : FinancialStatuses]

NoOrder ==
    [name |-> "", tags |-> {}, cancelled_at |-> FALSE, fulfilled |-> FALSE,
     closed_at |-> FALSE, financial_status |-> "paid"]

\* What GET orders.json?name=... yields: the first order found, no order, or
\* a failed request.
ShopifyOrders == [found : {"order"}, cancelled_at : BOOLEAN, fulfilled : BOOLEAN]
NotFound == [found |-> "none", cancelled_at |-> FALSE, fulfilled |-> FALSE]
RequestError == [found |-> "error", cancelled_at |-> FALSE, fulfilled |-> FALSE]
FetchResults == ShopifyOrders \cup {NotFound, RequestError}

Blank == [ref |-> "", marker |-> ""]
Header == [ref |-> "Order", marker |-> ""]

Max(a, b) == IF a > b THEN a ELSE b

----------------------------------------------------------------------------
(* The Sheets values API, on the two modelled columns *)

RECURSIVE Trim(_)
\* values.get omits trailing empty rows: the sheet ends at its last row
\* holding a value.
Trim(s) ==
    IF s # <<>> /\ s[Len(s)] = Blank THEN Trim(SubSeq(s, 1, Len(s) - 1)) ELSE s

CellAt(s, k) == IF k \in 1..Len(s) THEN s[k] ELSE Blank

\* values.update(range = "Sheet1!L{k}", values = [[m]])
UpdateMarker(s, k, m) ==
    Trim([j \in 1..Max(Len(s), k) |->
            IF j = k THEN [ref |-> CellAt(s, j).ref, marker |-> m] ELSE CellAt(s, j)])

\* values.append(range = "Sheet1!A1", INSERT_ROWS): the row goes below the
\* last row holding a value; into row 1 when the sheet is empty.
AppendRow(s, row) == Append(s, row)

\* values.clear(range = "Sheet1")
ClearSheet(s) == <<>>

\* A row as values.get returned it is as long as its last non-empty cell, and
\* values.update writes only the cells it is given: a row read without a
\* marker rewrites A..K and leaves L alone; an empty row writes nothing.
WriteRow(cur, v) ==
    IF v.marker # "" THEN v
    ELSE IF v.ref # "" THEN [ref |-> v.ref, marker |-> cur.marker]
    ELSE cur

\* values.update(range = "Sheet1!A1", values = rows)
UpdateFromA1(s, values) ==
    Trim([j \in 1..Max(Len(s), Len(values)) |->
            IF j <= Len(values) THEN WriteRow(CellAt(s, j), values[j]) ELSE s[j]])

----------------------------------------------------------------------------
(* Pure parts of webhook_orders_updated *)

\* (mutant: the tag is not looked at)
HasTriggerTag_Ignored(order) == TRUE

\* TRIGGER_TAG in current_tags
HasTriggerTag(order) == TRIGGER_TAG \in order.tags

\* (mutant: an order that is not cancelled counts as fulfilled)
WebhookStatus_ElseFulfilled(order) ==
    IF order.cancelled_at THEN CANCELLED ELSE FULFILLED

\* status of the event: cancellation is looked at first
WebhookStatus(order) ==
    IF order.cancelled_at THEN CANCELLED
    ELSE IF order.fulfilled THEN FULFILLED
    ELSE ""

\* (mutant: the enumeration starts at 1, so idx is the row above)
MatchingRow_StartAtOne(rows, order_id) ==
    LET hits == {k \in 2..Len(rows) : rows[k].ref = order_id}
    IN  IF hits = {} THEN 0 ELSE (CHOOSE k \in hits : \A j \in hits : k <= j) - 1

\* for idx, row in enumerate(rows[1:], start=2): if row[1] == order_id: ... break
\* The sheet row number of the first data row holding order_id; 0 if none.
MatchingRow(rows, order_id) ==
    LET hits == {k \in 2..Len(rows) : rows[k].ref = order_id}
    IN  IF hits = {} THEN 0 ELSE CHOOSE k \in hits : \A j \in hits : k <= j

\* existing_order_ids: column B of every row below row 1 that has a column B
ExistingOrderIds(rows) ==
    {rows[k].ref : k \in {j \in 2..Len(rows) : rows[j] # Blank}}

\* (mutant: closed_at is not looked at)
SkipsExport_NotClosed(order) == order.fulfilled \/ order.cancelled_at

\* fulfillment_status == "fulfilled" or cancelled_at or closed_at
SkipsExport(order) == order.fulfilled \/ order.cancelled_at \/ order.closed_at

\* (mutant: a failed read counts as a sheet without orders)
ReadFailed_AsEmpty(r) ==
    IF SkipsExport(r.order) THEN [r EXCEPT !.pc = "done", !.io_failed = TRUE,
                                           !.resp = [code |-> 200, body |-> "skipped"]]
    ELSE [r EXCEPT !.pc = "append", !.io_failed = TRUE]

\* except Exception: return JSONResponse(content={"error": "sheet read failed"})
ReadFailed(r) ==
    [r EXCEPT !.pc = "done", !.io_failed = TRUE,
              !.resp = [code |-> 200, body |-> "error"]]

\* row = [created_at, order_id, ..., note] padded to 12 cells: L is empty
NewRow(order) == [ref |-> order.name, marker |-> ""]

----------------------------------------------------------------------------
(* Pure parts of sync_unfulfilled_rows *)

ShopifyStatus(shopify_order) ==
    IF shopify_order.cancelled_at THEN CANCELLED
    ELSE IF shopify_order.fulfilled THEN FULFILLED
    ELSE ""

\* status in ["FULFILLED", "CANCELLED"]
IsMarked(row) == row.marker \in {FULFILLED, CANCELLED}
IsUnmarked(row) == ~IsMarked(row)

\* (mutant: the two groups are concatenated the other way round)
SortedRows_OpenFirst(rows) ==
    <<rows[1]>> \o SelectSeq(Tail(rows), IsUnmarked) \o SelectSeq(Tail(rows), IsMarked)

\* sorted_rows = [rows[0]] + fulfilled + unfulfilled
SortedRows(rows) ==
    <<rows[1]>> \o SelectSeq(Tail(rows), IsMarked) \o SelectSeq(Tail(rows), IsUnmarked)

\* cache = {}: no order name has an entry
EmptyCache == [x \in Refs |-> NotFound]

\* The sweep's cache is read only for an order name that a later row of the
\* snapshot repeats: entries no later row can read are not kept.
LaterRefs(rows, i) == {rows[k].ref : k \in (i + 1)..Len(rows)}
KeepCache(cache, rows, i) ==
    [x \in Refs |-> IF x \in LaterRefs(rows, i) THEN cache[x] ELSE NotFound]

\* (mutant: a row that cannot be handled ends the loop)
Continue_Break(r) ==
    [r EXCEPT !.i = Len(r.rows) + 1, !.shopify_order = NotFound, !.cache = EmptyCache]

\* `continue`: on to the next row.  shopify_order is not read again before
\* it is assigned.
Continue(r) ==
    [r EXCEPT !.i = r.i + 1, !.shopify_order = NotFound,
              !.cache = KeepCache(r.cache, r.rows, r.i)]

----------------------------------------------------------------------------
(* Pure part of sync_old_orders.py *)

\* orders and orders[0].get("fulfillment_status") == "fulfilled"; False on error
is_fulfilled(result) == result \in ShopifyOrders /\ result.fulfilled

----------------------------------------------------------------------------
(* get_corrected_city and what it calls.  A string is the sequence of its  *)
(* characters.                                                             *)

LowerLetters == <<"a", "b", "c", "e", "f", "h", "i", "l", "n", "r", "s", "t", "u", "v", "y">>
UpperLetters == <<"A", "B", "C", "E", "F", "H", "I", "L", "N", "R", "S", "T", "U", "V", "Y">>
Range(f) == {f[k] : k \in DOMAIN f}
IsLetter(c) == c \in Range(LowerLetters) \cup Range(UpperLetters)

\* str.lower(), str.strip() and str.title()
LowerChar(c) ==
    IF c \in Range(UpperLetters)
    THEN LowerLetters[CHOOSE k \in DOMAIN UpperLetters : UpperLetters[k] = c] ELSE c
UpperChar(c) ==
    IF c \in Range(LowerLetters)
    THEN UpperLetters[CHOOSE k \in DOMAIN LowerLetters : LowerLetters[k] = c] ELSE c
StrLower(s) == [k \in 1..Len(s) |-> LowerChar(s[k])]

RECURSIVE StrStrip(_)
StrStrip(s) ==
    IF s = <<>> THEN s
    ELSE IF s[1] = " " THEN StrStrip(Tail(s))
    ELSE IF s[Len(s)] = " " THEN StrStrip(SubSeq(s, 1, Len(s) - 1))
    ELSE s

StrTitle(s) ==
    [k \in 1..Len(s) |->
        IF k = 1 \/ ~IsLetter(s[k - 1]) THEN UpperChar(s[k]) ELSE LowerChar(s[k])]

\* sub in s
StrIn(sub, s) ==
    \E i \in 1..(Len(s) - Len(sub) + 1) : SubSeq(s, i, i + Len(sub) - 1) = sub

\* Comparison of two strings, as Python orders them by code point
Ord(c) ==
    LET all == <<" ">> \o UpperLetters \o LowerLetters
    IN  CHOOSE k \in DOMAIN all : all[k] = c
RECURSIVE StrLess(_, _)
StrLess(s, t) ==
    IF t = <<>> THEN FALSE
    ELSE IF s = <<>> THEN TRUE
    ELSE IF s[1] # t[1] THEN Ord(s[1]) < Ord(t[1])
    ELSE StrLess(Tail(s), Tail(t))

\* difflib.SequenceMatcher: the matching blocks of a and b, the longest one
\* (the earliest in a, then in b, among the longest) and the number of
\* matching characters: the longest block plus those to its left and right
MatchingBlocks(a, b) ==
    {m \in (1..Len(a)) \X (1..Len(b)) \X (1..Len(a)) :
        /\ m[1] + m[3] - 1 <= Len(a) /\ m[2] + m[3] - 1 <= Len(b)
        /\ SubSeq(a, m[1], m[1] + m[3] - 1) = SubSeq(b, m[2], m[2] + m[3] - 1)}

find_longest_match(a, b) ==
    CHOOSE m \in MatchingBlocks(a, b) : \A n \in MatchingBlocks(a, b) :
        \/ m[3] > n[3]
        \/ m[3] = n[3] /\ m[1] < n[1]
        \/ m[3] = n[3] /\ m[1] = n[1] /\ m[2] <= n[2]

RECURSIVE Matches(_, _)
Matches(a, b) ==
    IF MatchingBlocks(a, b) = {} THEN 0
    ELSE LET m == find_longest_match(a, b)
         IN  m[3] + Matches(SubSeq(a, 1, m[1] - 1), SubSeq(b, 1, m[2] - 1))
                  + Matches(SubSeq(a, m[1] + m[3], Len(a)), SubSeq(b, m[2] + m[3], Len(b)))

\* cutoff=0.85, in hundredths
CutoffPercent == 85

\* SequenceMatcher(a=x, b=word).ratio() >= cutoff, ratio being 2.0 * M / T
ClearsCutoff(word, x) == 200 * Matches(x, word) >= CutoffPercent * (Len(x) + Len(word))

\* (score, x) > (score', y), the scores being 2M/T
Better(word, x, y) ==
    LET mx == Matches(x, word) * (Len(y) + Len(word))
        my == Matches(y, word) * (Len(x) + Len(word))
    IN  mx > my \/ (mx = my /\ StrLess(y, x))

\* difflib.get_close_matches(word, possibilities, n=1, cutoff=0.85): the
\* possibilities that clear the cutoff, the best of them first
get_close_matches(word, possibilities) ==
    LET close == {x \in Range(possibilities) : ClearsCutoff(word, x)}
    IN  IF close = {} THEN <<>>
        ELSE <<CHOOSE x \in close : \A y \in close : x = y \/ Better(word, x, y)>>

\* city_aliases.json and cities_bigdelivery.txt as loaded: the keys of the
\* one and the lines of the other, stripped and lowercased
CITY_ALIASES ==
    (<<"c", "a", "s", "a">> :> <<"C", "a", "s", "a", "b", "l", "a", "n", "c", "a">>)
    @@ (<<"s", "l", "a">> :> <<"S", "a", "l", "e">>)
    @@ (<<"r", "a", "b", "a", "t">> :> <<"R", "a", "b", "a", "t", " ", "V", "i", "l", "l", "e">>)

VALID_CITIES ==
    << <<"r", "a", "b", "a", "t">>, <<"s", "a", "l", "e">>, <<"s", "a", "f", "i">> >>

\* for city in VALID_CITIES: if city in address_hint.lower()
GuessedFromAddress(address_hint) ==
    SelectSeq(VALID_CITIES, LAMBDA c : StrIn(c, StrLower(address_hint)))

\* (mutant: the address is searched before the close matches)
get_corrected_city_AddressFirst(input_city, address_hint) ==
    LET city_clean == StrLower(StrStrip(input_city))
        matches == get_close_matches(city_clean, VALID_CITIES)
        guessed == GuessedFromAddress(address_hint)
    IN  IF city_clean \in DOMAIN CITY_ALIASES
        THEN [corrected |-> CITY_ALIASES[city_clean], note |-> "Matched alias"]
        ELSE IF guessed # <<>>
        THEN [corrected |-> StrTitle(guessed[1]), note |-> "Guessed from address"]
        ELSE IF matches # <<>>
        THEN [corrected |-> StrTitle(matches[1]), note |-> "Fuzzy matched"]
        ELSE [corrected |-> input_city, note |-> "Could not match"]

get_corrected_city(input_city, address_hint) ==
    LET city_clean == StrLower(StrStrip(input_city))
        matches == get_close_matches(city_clean, VALID_CITIES)
        guessed == GuessedFromAddress(address_hint)
    IN  IF city_clean \in DOMAIN CITY_ALIASES
        THEN [corrected |-> CITY_ALIASES[city_clean], note |-> "Matched alias"]
        ELSE IF matches # <<>>
        THEN [corrected |-> StrTitle(matches[1]), note |-> "Fuzzy matched"]
        ELSE IF guessed # <<>>
        THEN [corrected |-> StrTitle(guessed[1]), note |-> "Guessed from address"]
        ELSE [corrected |-> input_city, note |-> "Could not match"]

\* shipping_address.city and shipping_address.address1 of the orders tried
InputCities ==
    { <<"R", "a", "b", "a", "t", " ">>, <<"r", "a", "b", "t">>, <<"S", "A", "F", "I">>,
      <<"s", "a", "f">>, <<"s", "l", "a">>, <<"f", "e", "s">>, <<>>,
      <<" ", "c", "a", "s", "a">>, <<"S", "a", "l">>, <<"s", "a", "f", "e">> }

AddressHints ==
    { <<>>, <<"H", "a", "y", " ", "S", "a", "f", "i">>,
      <<"s", "a", "l", "e", " ", "r", "a", "b", "a", "t">>, <<"f", "e", "s">>,
      <<"S", "A", "L", "E">>, <<"R", "u", "e", " ", "b">> }

NotCalled == [corrected |-> <<>>, note |-> ""]
NoCall == [input_city |-> <<>>, address_hint |-> <<>>, result |-> NotCalled]

----------------------------------------------------------------------------
(* Requests *)

NoResp == [code |-> 0, body |-> ""]

Idle ==
    [pc |-> "idle", hmac_ok |-> TRUE, order |-> NoOrder, known |-> FALSE,
     idx |-> 0, rows |-> <<>>, i |-> 0, cache |-> EmptyCache, shopify_order |-> NotFound,
     resp |-> NoResp, io_failed |-> FALSE, effects |-> {}]

\* (mutant: every return answers {"success": True})
Respond_Success(r, code, body) ==
    [r EXCEPT !.pc = "done", !.resp = [code |-> code, body |-> "success"],
              !.idx = 0, !.i = 0, !.cache = EmptyCache, !.shopify_order = NotFound]

\* the handler returns (or raises): the response goes out, the locals die
Respond(r, code, body) ==
    [r EXCEPT !.pc = "done", !.resp = [code |-> code, body |-> body],
              !.idx = 0, !.i = 0, !.cache = EmptyCache, !.shopify_order = NotFound]

\* an unhandled exception: FastAPI answers 500
Raise(r) == Respond([r EXCEPT !.io_failed = TRUE], 500, "Internal Server Error")

\* rows of the ledger that hold an order: row 1 is the header
DataRows(s, ref) == {k \in 2..Len(s) : s[k].ref = ref}
DataRefs(s) == {s[k].ref : k \in 2..Len(s)} \ {""}

\* The ledgers the service may start on: the header and up to MaxInitRows
\* rows of distinct orders, marked or not.  (Order names are interchangeable,
\* so the rows take them in one fixed order.)
InitRefs == <<"#1001", "#1002", "#1003">>
InitLedgers ==
    UNION {{[k \in 1..(n + 1) |->
                IF k = 1 THEN Header ELSE [ref |-> InitRefs[k - 1], marker |-> m[k - 1]]]
            : m \in [1..n -> Markers]} : n \in 0..MaxInitRows}

\* The state at start, `failed` API calls having failed before it
Start(failed) ==
    /\ sheet \in InitLedgers
    /\ req = [wk \in Workers |-> Idle]
    /\ sync = [pc |-> "idle", rows |-> <<>>, i |-> 0, result |-> NotFound]
    /\ deliveries = 0
    /\ runs = 0
    /\ faults = failed
    /\ city = NoCall

Init == Start(0)

\* A call of the Sheets API returns (TRUE) or raises (FALSE)
Outcomes == IF faults < MaxFaults THEN BOOLEAN ELSE {TRUE}
Call(ok) == faults' = IF ok THEN faults ELSE faults + 1

----------------------------------------------------------------------------
(* webhook_orders_updated: POST /webhook/orders-updated *)

\* The request arrives.  An unknown or missing shop domain is answered 400;
\* a body json.loads rejects raises.  x_shopify_hmac_sha256 is received and
\* not looked at.
Receive(wk, hmacs, orders) ==
    /\ req[wk].pc \in {"idle", "done"}
    /\ deliveries < MaxDeliveries
    /\ deliveries' = deliveries + 1
    /\ \/ \* x_shopify_shop_domain not in SHOP_DOMAIN_TO_SHEET
          req' = [req EXCEPT ![wk] = Respond(Idle, 400, "Unknown or missing shop domain")]
       \/ \* json.loads(body) raises
          req' = [req EXCEPT ![wk] = Respond(Idle, 500, "Internal Server Error")]
       \/ \E hmac_ok \in hmacs, order \in orders :
             req' = [req EXCEPT ![wk] =
                 [Idle EXCEPT !.pc = "mark_read", !.hmac_ok = hmac_ok, !.order = order,
                              !.known = order.name \in DataRefs(sheet)]]
    /\ UNCHANGED <<sheet, sync, runs, faults, city>>

\* MARK EXISTING ROWS: values.get(A:K) and the scan for the order's row.
\* A failed read is logged and the handler goes on.
MarkExistingRead(wk) ==
    LET r == req[wk]
        idx == MatchingRow(sheet, r.order.name)
    IN  /\ r.pc = "mark_read"
        /\ \E ok \in Outcomes :
              /\ Call(ok)
              /\ req' = [req EXCEPT ![wk] =
                     IF ~ok THEN [r EXCEPT !.pc = "gate", !.io_failed = TRUE]
                     ELSE IF idx # 0 /\ WebhookStatus(r.order) # ""
                         THEN [r EXCEPT !.pc = "mark_write", !.idx = idx]
                     ELSE [r EXCEPT !.pc = "gate"]]
        /\ UNCHANGED <<sheet, sync, deliveries, runs, city>>

\* values.update(L{idx}, status); a failure is logged and the handler goes on
MarkExistingWrite(wk) ==
    LET r == req[wk]
    IN  /\ r.pc = "mark_write"
        /\ \E ok \in Outcomes :
              /\ Call(ok)
              /\ sheet' = IF ok THEN UpdateMarker(sheet, r.idx, WebhookStatus(r.order))
                          ELSE sheet
              /\ req' = [req EXCEPT ![wk] =
                     IF ok THEN [r EXCEPT !.pc = "gate", !.idx = 0, !.effects = @ \cup {"mark"}]
                     ELSE [r EXCEPT !.pc = "gate", !.idx = 0, !.io_failed = TRUE]]
        /\ UNCHANGED <<sync, deliveries, runs, city>>

\* if TRIGGER_TAG not in current_tags: return {"skipped": True}
TagGate(wk) ==
    LET r == req[wk]
    IN  /\ r.pc = "gate"
        /\ req' = [req EXCEPT ![wk] =
              IF HasTriggerTag(r.order) THEN [r EXCEPT !.pc = "dup_read"]
              ELSE Respond(r, 200, "skipped")]
        /\ UNCHANGED <<sheet, sync, deliveries, runs, faults, city>>

\* values.get(A:L), the duplicate check and the fulfilled/cancelled/closed
\* check.  A failed read returns {"error": "sheet read failed"}.
CheckDuplicate(wk) ==
    LET r == req[wk]
    IN  /\ r.pc = "dup_read"
        /\ \E ok \in Outcomes :
              /\ Call(ok)
              /\ req' = [req EXCEPT ![wk] =
                     IF ~ok THEN ReadFailed(r)
                     ELSE IF r.order.name \in ExistingOrderIds(sheet)
                         THEN Respond(r, 200, "skipped")
                     ELSE IF SkipsExport(r.order) THEN Respond(r, 200, "skipped")
                     ELSE [r EXCEPT !.pc = "append"]]
        /\ UNCHANGED <<sheet, sync, deliveries, runs, city>>

\* EXPORT NEW ORDER: values.append of the row.  A failure is logged and the
\* handler goes on to the sweep.  (The calls that follow the append reset
\* the new row's cell format; they change no value.)
ExportNewOrder(wk) ==
    LET r == req[wk]
    IN  /\ r.pc = "append"
        /\ \E ok \in Outcomes :
              /\ Call(ok)
              /\ sheet' = IF ok THEN AppendRow(sheet, NewRow(r.order)) ELSE sheet
              /\ req' = [req EXCEPT ![wk] =
                     IF ok THEN [r EXCEPT !.pc = "sweep_read", !.effects = @ \cup {"append"}]
                     ELSE [r EXCEPT !.pc = "sweep_read", !.io_failed = TRUE]]
        /\ UNCHANGED <<sync, deliveries, runs, city>>

----------------------------------------------------------------------------
(* sync_unfulfilled_rows(store), called by the handler after the export.   *)
(* Nothing in it is caught: a failed call raises out of the handler.       *)

\* values.get(A:L); if len(rows) <= 1: return
SweepRead(wk) ==
    LET r == req[wk]
    IN  /\ r.pc = "sweep_read"
        /\ \E ok \in Outcomes :
              /\ Call(ok)
              /\ req' = [req EXCEPT ![wk] =
                     IF ~ok THEN Raise(r)
                     ELSE IF Len(sheet) <= 1
                         THEN Respond([r EXCEPT !.rows = sheet], 200, "success")
                     ELSE [r EXCEPT !.pc = "sweep_rows", !.rows = sheet, !.i = 2,
                                    !.cache = EmptyCache]]
        /\ UNCHANGED <<sheet, sync, deliveries, runs, city>>

\* The loop body once the row's order is in hand (from the cache or fetched):
\* write the marker when the order's status differs from the row's.
SweepResolved(wk, shopify_order, cache) ==
    LET r == req[wk]
        row == r.rows[r.i]
        shopify_status == ShopifyStatus(shopify_order)
        next == [r EXCEPT !.i = r.i + 1, !.shopify_order = shopify_order,
                          !.cache = KeepCache(cache, r.rows, r.i)]
    IN  IF shopify_status # "" /\ shopify_status # row.marker
        THEN \E ok \in Outcomes :
                /\ Call(ok)
                /\ sheet' = IF ok THEN UpdateMarker(sheet, r.i, shopify_status) ELSE sheet
                /\ req' = [req EXCEPT ![wk] =
                       IF ok THEN [next EXCEPT !.effects = @ \cup {"sweep_mark"}]
                       ELSE Raise(r)]
        ELSE /\ sheet' = sheet
             /\ faults' = faults
             /\ req' = [req EXCEPT ![wk] = next]

\* One turn of `for idx, row in enumerate(rows[1:], start=2)`
SweepRow(wk) ==
    LET r == req[wk]
        row == r.rows[r.i]
    IN  /\ r.pc = "sweep_rows"
        /\ r.i <= Len(r.rows)
        /\ IF row.ref \notin Refs
           THEN \* if not order_id: continue
                /\ UNCHANGED <<sheet, faults>>
                /\ req' = [req EXCEPT ![wk] = Continue(r)]
           ELSE IF r.cache[row.ref] # NotFound
           THEN SweepResolved(wk, r.cache[row.ref], r.cache)
           ELSE \E result \in FetchResults :
                   IF result \in ShopifyOrders
                   THEN SweepResolved(wk, result, [r.cache EXCEPT ![row.ref] = result])
                   ELSE \* no order, or the request failed: continue
                        /\ UNCHANGED <<sheet, faults>>
                        /\ req' = [req EXCEPT ![wk] = Continue(r)]
        /\ UNCHANGED <<sync, deliveries, runs, city>>

\* values.clear("Sheet1")
SweepClear(wk) ==
    LET r == req[wk]
    IN  /\ r.pc = "sweep_rows"
        /\ r.i > Len(r.rows)
        /\ \E ok \in Outcomes :
              /\ Call(ok)
              /\ sheet' = IF ok THEN ClearSheet(sheet) ELSE sheet
              /\ req' = [req EXCEPT ![wk] =
                     IF ok THEN [r EXCEPT !.pc = "sweep_rewrite", !.i = 0,
                                          !.effects = @ \cup {"clear"}]
                     ELSE Raise(r)]
        /\ UNCHANGED <<sync, deliveries, runs, city>>

\* values.update("Sheet1!A1", sorted_rows), then return {"success": True}
SweepRewrite(wk) ==
    LET r == req[wk]
    IN  /\ r.pc = "sweep_rewrite"
        /\ \E ok \in Outcomes :
              /\ Call(ok)
              /\ sheet' = IF ok THEN UpdateFromA1(sheet, SortedRows(r.rows)) ELSE sheet
              /\ req' = [req EXCEPT ![wk] =
                     IF ok THEN Respond([r EXCEPT !.effects = @ \cup {"rewrite"}], 200, "success")
                     ELSE Raise(r)]
        /\ UNCHANGED <<sync, deliveries, runs, city>>

----------------------------------------------------------------------------
(* sync_old_orders.py: sync_fulfilled_orders(store) *)

SyncDone == [pc |-> "done", rows |-> <<>>, i |-> 0, result |-> NotFound]

\* The script starts: values.get(A:L); an empty sheet ends it
SyncRead ==
    /\ sync.pc \in {"idle", "done"}
    /\ runs < MaxRuns
    /\ runs' = runs + 1
    /\ \E ok \in Outcomes :
          /\ Call(ok)
          /\ sync' = IF ~ok \/ Len(sheet) <= 1 THEN SyncDone
                     ELSE [pc |-> "rows", rows |-> sheet, i |-> 2, result |-> NotFound]
    /\ UNCHANGED <<sheet, req, deliveries, city>>

\* One turn of the loop: a row with an order name and no FULFILLED marker is
\* looked up, and marked FULFILLED when is_fulfilled says so.  A failed
\* write ends the script.
SyncRow ==
    LET row == sync.rows[sync.i]
        next(result) ==
            IF sync.i + 1 > Len(sync.rows) THEN [SyncDone EXCEPT !.result = result]
            ELSE [sync EXCEPT !.i = sync.i + 1, !.result = result]
    IN  /\ sync.pc = "rows"
        /\ IF row.ref \in Refs /\ row.marker # FULFILLED
           THEN \E result \in FetchResults :
                   IF is_fulfilled(result)
                   THEN \E ok \in Outcomes :
                           /\ Call(ok)
                           /\ sheet' = IF ok THEN UpdateMarker(sheet, sync.i, FULFILLED)
                                       ELSE sheet
                           /\ sync' = IF ok THEN next(result) ELSE SyncDone
                   ELSE /\ UNCHANGED <<sheet, faults>>
                        /\ sync' = next(NotFound)
           ELSE /\ UNCHANGED <<sheet, faults>>
                /\ sync' = next(NotFound)
        /\ UNCHANGED <<req, deliveries, runs, city>>

----------------------------------------------------------------------------
(* Specifications *)

Steps(wk) ==
    \/ MarkExistingRead(wk)
    \/ MarkExistingWrite(wk)
    \/ TagGate(wk)
    \/ CheckDuplicate(wk)
    \/ ExportNewOrder(wk)
    \/ SweepRead(wk)
    \/ SweepRow(wk)
    \/ SweepClear(wk)
    \/ SweepRewrite(wk)

Handle(wk) == Receive(wk, BOOLEAN, Orders) \/ Steps(wk)

\* The service as one process: its handler never yields once it has the
\* body, so requests are handled one after the other.
Next == Handle("w1")

Spec == Init /\ [][Next]_vars

\* Signed requests for open, paid orders, tagged or not, terminal or not
SignedOrders == {o \in Orders : ~o.closed_at /\ o.financial_status = "paid"}

\* The service beside a run of sync_old_orders.py
NextSync ==
    \/ Receive("w1", {TRUE}, SignedOrders)
    \/ Steps("w1")
    \/ SyncRead
    \/ SyncRow

SpecSync == Init /\ [][NextSync]_vars

\* The service as several worker processes, handlers overlapping, on a
\* spreadsheet whose calls all return
InitRace == Start(MaxFaults)

NextRace == \E wk \in Workers : Receive(wk, {TRUE}, SignedOrders) \/ Steps(wk)

SpecRace == InitRace /\ [][NextRace]_vars

\* get_corrected_city by itself, called once with a city and an address
InitCity ==
    /\ sheet = <<Header>>
    /\ req = [wk \in Workers |-> Idle]
    /\ sync = [pc |-> "idle", rows |-> <<>>, i |-> 0, result |-> NotFound]
    /\ deliveries = 0
    /\ runs = 0
    /\ faults = 0
    /\ city \in [input_city : InputCities, address_hint : AddressHints, result : {NotCalled}]

CorrectCity ==
    /\ city.result = NotCalled
    /\ city' = [city EXCEPT !.result = get_corrected_city(city.input_city, city.address_hint)]
    /\ UNCHANGED <<sheet, req, sync, deliveries, runs, faults>>

NextCity == CorrectCity

SpecCity == InitCity /\ [][NextCity]_vars

\* The service as one process whose handler, once it has a request, runs on
\* to its response: none of its steps waits for anything
SpecFair == Spec /\ WF_vars(Steps("w1"))

----------------------------------------------------------------------------
(* Vocabulary of the properties *)

Tagged(order) == TRIGGER_TAG \in order.tags
Terminal(order) == order.cancelled_at \/ order.fulfilled
TerminalRow(row) == row.marker \in {FULFILLED, CANCELLED}
OpenRow(row) == row.marker = ""

\* a request that passed store routing and whose body parsed
Parsed(r) == r.order \in Orders
Finished(r) == r.pc = "done" /\ Parsed(r)

----------------------------------------------------------------------------
(* C1: for every order_reference, under every interleaving of webhook      *)
(* deliveries carrying it, the ledger never holds more than one data row   *)
(* with that reference.                                                    *)

C1_AtMostOneRowPerReference ==
    \A ref \in Refs : Cardinality(DataRows(sheet, ref)) <= 1

----------------------------------------------------------------------------
(* C2: an event whose tags do not hold the trigger tag never causes a row  *)
(* to be appended, whatever its other fields are and whether or not its    *)
(* reference is in the ledger.                                             *)

C2_UntaggedNeverAppends ==
    \A wk \in Workers :
        Parsed(req[wk]) /\ ~Tagged(req[wk].order) => "append" \notin req[wk].effects

\* an untagged event that is open, paid, not closed and not in the ledger
\* has been handled to its end: only the tag kept it from the export
C2_Witness ==
    \E wk \in Workers :
        LET r == req[wk]
        IN  /\ Finished(r) /\ ~Tagged(r.order) /\ ~Terminal(r.order) /\ ~r.order.closed_at
            /\ r.order.financial_status = "paid" /\ ~r.known /\ ~r.io_failed
            /\ r.resp = [code |-> 200, body |-> "skipped"]

----------------------------------------------------------------------------
(* C3: a request for a recognized store whose signature does not match its *)
(* body is rejected with 403 and changes nothing in the ledger.            *)

C3_BadSignatureRejected ==
    \A wk \in Workers :
        LET r == req[wk]
        IN  Parsed(r) /\ ~r.hmac_ok =>
                /\ r.effects = {}
                /\ r.pc = "done" => r.resp.code = 403

----------------------------------------------------------------------------
(* C4: whenever the webhook's marking, the sweep or sync_fulfilled_orders  *)
(* writes a marker for an order that is cancelled and fulfilled, the       *)
(* marker written is CANCELLED.                                            *)

\* the step is the handler's marker write, and the call returned
WebhookMarks(wk) ==
    req[wk].pc = "mark_write" /\ req'[wk].pc = "gate" /\ faults' = faults

\* the step is a sweep turn that wrote the row's marker
SweepMarks(wk) ==
    /\ req[wk].pc = "sweep_rows" /\ req'[wk].pc = "sweep_rows"
    /\ req'[wk].i = req[wk].i + 1
    /\ req'[wk].shopify_order \in ShopifyOrders
    /\ "sweep_mark" \in req'[wk].effects
    /\ sheet' # sheet

\* the step is a turn of the script that wrote the row's marker
SyncMarks ==
    sync.pc = "rows" /\ sync' # sync /\ sync'.result \in ShopifyOrders

Both(order) == order.cancelled_at /\ order.fulfilled

C4_CancelledWins ==
    [][/\ \A wk \in Workers :
            /\ WebhookMarks(wk) /\ Both(req[wk].order)
                   => CellAt(sheet', req[wk].idx).marker = CANCELLED
            /\ SweepMarks(wk) /\ Both(req'[wk].shopify_order)
                   => CellAt(sheet', req[wk].i).marker = CANCELLED
       /\ SyncMarks /\ Both(sync'.result)
              => CellAt(sheet', sync.i).marker = CANCELLED]_vars

----------------------------------------------------------------------------
(* C5: a tagged event with no terminal status, not closed, with an         *)
(* accepted financial status and a reference not in the ledger, handled    *)
(* alone and without a failed call, leaves exactly one data row with its   *)
(* reference in the ledger.                                                *)

C5_ExportedOnce ==
    \A wk \in Workers :
        LET r == req[wk]
        IN  /\ Finished(r) /\ ~r.io_failed
            /\ Tagged(r.order) /\ ~Terminal(r.order) /\ ~r.order.closed_at
            /\ r.order.financial_status \in AcceptedFinancial
            /\ ~r.known
            => Cardinality(DataRows(sheet, r.order.name)) = 1

----------------------------------------------------------------------------
(* C6: for an event whose reference is in the ledger and that is cancelled *)
(* or fulfilled, the handler (its ledger calls returning) sets the marker  *)
(* of the row with that reference to CANCELLED, or else FULFILLED, and     *)
(* appends no row.                                                         *)

ExpectedMarker(order) == IF order.cancelled_at THEN CANCELLED ELSE FULFILLED

C6_KnownTerminalMarked ==
    \A wk \in Workers :
        LET r == req[wk]
        IN  Finished(r) /\ ~r.io_failed /\ r.known /\ Terminal(r.order) =>
                /\ "append" \notin r.effects
                /\ DataRows(sheet, r.order.name) # {}
                /\ \A k \in DataRows(sheet, r.order.name) :
                       sheet[k].marker = ExpectedMarker(r.order)

\* such an event has been handled and its row's marker was something else
C6_Witness ==
    \E wk \in Workers :
        LET r == req[wk]
        IN  /\ Finished(r) /\ ~r.io_failed /\ r.known /\ Terminal(r.order)
            /\ "mark" \in r.effects
            /\ \E k \in DataRows(sheet, r.order.name) :
                   /\ k > 2
                   /\ sheet[k].marker = ExpectedMarker(r.order)
                   /\ sheet[2].marker # sheet[k].marker

----------------------------------------------------------------------------
(* C7: an event without the trigger tag is a skip with no side effect: it  *)
(* changes no cell of the ledger, and writes no marker even when its       *)
(* reference is in the ledger and it is cancelled or fulfilled.            *)

C7_UntaggedNoEffect ==
    \A wk \in Workers :
        Parsed(req[wk]) /\ ~Tagged(req[wk].order) => req[wk].effects = {}

\* As amended: an event without the trigger tag appends nothing and starts
\* no sweep; the one cell it can change is the marker of its order's row,
\* and only when the event is cancelled or fulfilled and its reference is
\* in the ledger.
C7_UntaggedOnlyMarks ==
    \A wk \in Workers :
        LET r == req[wk]
        IN  Parsed(r) /\ ~Tagged(r.order) =>
                /\ r.effects \subseteq {"mark"}
                /\ "mark" \in r.effects => Terminal(r.order) /\ r.known
                /\ r.pc \in {"mark_read", "mark_write", "gate", "done"}
                /\ r.pc = "done" => r.resp = [code |-> 200, body |-> "skipped"]

\* an untagged, fulfilled event has marked its order's row and was skipped
C7_Witness ==
    \E wk \in Workers :
        LET r == req[wk]
        IN  /\ Finished(r) /\ ~Tagged(r.order) /\ r.order.fulfilled /\ ~r.order.cancelled_at
            /\ r.effects = {"mark"}
            /\ \E k \in DataRows(sheet, r.order.name) : sheet[k].marker = FULFILLED

----------------------------------------------------------------------------
(* C8: a row is appended for an event only if the event has no terminal    *)
(* status, closed_at is unset and financial_status is one of paid,         *)
(* pending, unpaid.                                                        *)

C8_AppendOnlyAcceptedOpen ==
    \A wk \in Workers :
        LET r == req[wk]
        IN  "append" \in r.effects =>
                /\ ~Terminal(r.order) /\ ~r.order.closed_at
                /\ r.order.financial_status \in AcceptedFinancial

\* As amended: a row is appended for an event only if the event carries the
\* trigger tag, has no terminal status, closed_at is unset and its reference
\* is not in the ledger; financial_status plays no part.
C8_AppendOnlyTaggedOpenNew ==
    \A wk \in Workers :
        LET r == req[wk]
        IN  (r.pc = "append" \/ "append" \in r.effects) =>
                /\ Tagged(r.order) /\ ~Terminal(r.order) /\ ~r.order.closed_at
                /\ ~r.known

\* a refunded order's row has been appended
C8_Witness ==
    \E wk \in Workers :
        LET r == req[wk]
        IN  /\ Finished(r) /\ "append" \in r.effects
            /\ r.order.financial_status = "refunded"
            /\ DataRows(sheet, r.order.name) # {}

----------------------------------------------------------------------------
(* C9: every request that passes store routing and is parsed and evaluated *)
(* is answered 200 with the body {"success": true}, whatever the outcome:  *)
(* export, status update or any skip.                                      *)

Exportable(r) ==
    Tagged(r.order) /\ ~Terminal(r.order) /\ ~r.order.closed_at /\ ~r.known

----------------------------------------------------------------------------
(* C10: after a sweep completes, every data row marked FULFILLED or        *)
(* CANCELLED precedes every data row with an empty marker, the header is   *)
(* still row 1, and inside each of the two groups the rows keep the order  *)
(* they had before the sweep.                                              *)

\* the handler's sweep ran to its end; r.rows is the ledger it started on
Swept(r) == r.pc = "done" /\ "rewrite" \in r.effects

C10_SweepPartitions ==
    \A wk \in Workers :
        LET r == req[wk]
        IN  Swept(r) =>
                /\ sheet # <<>> /\ sheet[1] = r.rows[1]
                /\ \A j, k \in 2..Len(sheet) :
                       j < k /\ TerminalRow(sheet[k]) => TerminalRow(sheet[j])
                /\ \A k \in 2..Len(sheet) : TerminalRow(sheet[k]) \/ OpenRow(sheet[k])
                /\ SelectSeq(Tail(sheet), TerminalRow) = SelectSeq(Tail(r.rows), TerminalRow)
                /\ SelectSeq(Tail(sheet), OpenRow) = SelectSeq(Tail(r.rows), OpenRow)

\* a sweep has ended that moved a marked row above an unmarked one and
\* kept two unmarked rows in their order
C10_Witness ==
    \E wk \in Workers :
        LET r == req[wk]
        IN  /\ Swept(r)
            /\ \E j, k \in 2..Len(r.rows) :
                   j < k /\ OpenRow(r.rows[j]) /\ TerminalRow(r.rows[k])
            /\ Len(SelectSeq(Tail(sheet), OpenRow)) >= 2
            /\ sheet # r.rows

----------------------------------------------------------------------------
(* C11: after a sweep that completes without a failed call and with no     *)
(* other writer, a row whose order was resolved as cancelled or fulfilled  *)
(* carries that status in its marker cell in the final ledger: the marker  *)
(* written in the per-row step survives the clear and the rewrite.         *)
(* Stated for the row the loop handled last, whose order is still in       *)
(* shopify_order when the sweep rewrites the sheet.                        *)

\* the step is the sweep's final values.update, and the call returned
SweepRewrites(wk) ==
    /\ req[wk].pc = "sweep_rewrite" /\ req'[wk].pc = "done"
    /\ "rewrite" \in req'[wk].effects

\* the last row of the sweep's snapshot was resolved as cancelled or fulfilled
LastRowTerminal(r) ==
    r.rows # <<>> /\ r.shopify_order \in ShopifyOrders /\ Terminal(r.shopify_order)

C11_MarkerSurvivesRewrite ==
    [][\A wk \in Workers :
          LET r == req[wk]
              ref == r.rows[Len(r.rows)].ref
          IN  SweepRewrites(wk) /\ ~r.io_failed /\ LastRowTerminal(r) =>
                  \E k \in DataRows(sheet', ref) :
                      sheet'[k].marker = ExpectedMarker(r.shopify_order)]_vars

----------------------------------------------------------------------------
(* C12: when the sweep's clear or its rewrite fails, the sweep aborts and  *)
(* the ledger holds the rows it held before the reorder started, in the    *)
(* same order: it is never left cleared or partly rewritten.               *)

\* column B of a sheet, row by row
RefsOf(s) == [k \in 1..Len(s) |-> s[k].ref]

\* the handler's sweep had read its rows and a call of it raised
SweepAborted(r) == r.pc = "done" /\ r.resp.code = 500 /\ Len(r.rows) > 1

C12_AbortKeepsLedger ==
    \A wk \in Workers :
        SweepAborted(req[wk]) =>
            sheet # <<>> /\ RefsOf(sheet) = RefsOf(req[wk].rows)

----------------------------------------------------------------------------
(* C13: the marker write an order event triggers changes the marker cell   *)
(* of the row whose reference is the event's and nothing else, also when a *)
(* sweep of another handler reorders the rows between the handler's row    *)
(* lookup and its write.  Stated for the rows of other orders: the write   *)
(* changes no row that holds another order's reference.                    *)

\* sheet rows whose cells the step changed
ChangedRows == {k \in 1..Max(Len(sheet), Len(sheet')) : CellAt(sheet', k) # CellAt(sheet, k)}

C13_MarksOnlyMatchingRow ==
    [][\A wk \in Workers :
          WebhookMarks(wk) =>
              \A k \in ChangedRows :
                  CellAt(sheet, k).ref \notin Refs \ {req[wk].order.name}]_vars

----------------------------------------------------------------------------
(* C14: in a sweep, a row whose order cannot be resolved (the request      *)
(* fails or finds no order) is skipped and only that row: the turn changes *)
(* nothing in the ledger and in what the sweep has resolved, the next row  *)
(* is handled next, a row resolved as cancelled or fulfilled has that      *)
(* marker after its turn, and the sweep does not end before its clear and  *)
(* rewrite unless a ledger call fails.                                     *)

\* the step is a turn of the loop for a row with an order name that was
\* not resolved
SkipsRow(wk) ==
    LET r == req[wk]
    IN  /\ r.pc = "sweep_rows" /\ r.i <= Len(r.rows) /\ r.rows[r.i].ref \in Refs
        /\ req'[wk] # r /\ req'[wk].pc = "sweep_rows"
        /\ req'[wk].shopify_order = NotFound

\* the step is a turn of the loop that resolved the row's order as terminal
ResolvesTerminal(wk) ==
    LET r == req[wk]
    IN  /\ r.pc = "sweep_rows" /\ r.i <= Len(r.rows)
        /\ req'[wk] # r /\ req'[wk].pc = "sweep_rows"
        /\ req'[wk].shopify_order \in ShopifyOrders /\ Terminal(req'[wk].shopify_order)

\* the step ends the sweep, and no call failed in it
SweepEnds(wk) ==
    /\ req[wk].pc \in {"sweep_rows", "sweep_rewrite"} /\ req'[wk].pc = "done"
    /\ faults' = faults

C14_SkipsOnlyThatRow ==
    [][\A wk \in Workers :
          LET r == req[wk]
          IN  /\ SkipsRow(wk) =>
                    /\ sheet' = sheet
                    /\ req'[wk].i = r.i + 1
                    /\ req'[wk].rows = r.rows /\ req'[wk].effects = r.effects
                    /\ \A x \in LaterRefs(r.rows, r.i) : req'[wk].cache[x] = r.cache[x]
              /\ ResolvesTerminal(wk) =>
                    /\ req'[wk].i = r.i + 1
                    /\ CellAt(sheet', r.i).marker = ExpectedMarker(req'[wk].shopify_order)
              /\ SweepEnds(wk) => {"clear", "rewrite"} \subseteq req'[wk].effects]_vars

\* a sweep has updated a row, then skipped the next one, and has a row to go
C14_Witness ==
    \E wk \in Workers :
        LET r == req[wk]
        IN  /\ r.pc = "sweep_rows" /\ 3 < r.i /\ r.i <= Len(r.rows)
            /\ r.rows[r.i - 1].ref \in Refs /\ r.shopify_order = NotFound
            /\ "sweep_mark" \in r.effects
            /\ sheet[r.i - 1] = r.rows[r.i - 1]

----------------------------------------------------------------------------
(* C15: when the handler's read of the ledger's known references fails,    *)
(* the handler appends no row for the event: it answers at once and        *)
(* changes nothing; a failed read is never taken for an empty set.         *)

\* the step is the duplicate check's read, and the call raised
DuplicateReadFails(wk) ==
    req[wk].pc = "dup_read" /\ req'[wk] # req[wk] /\ faults' = faults + 1

C15_FailedReadNoAppend ==
    [][\A wk \in Workers :
          DuplicateReadFails(wk) =>
              /\ sheet' = sheet
              /\ req'[wk].pc = "done"
              /\ req'[wk].resp = [code |-> 200, body |-> "error"]
              /\ "append" \notin req'[wk].effects]_vars

\* the read failed for an event that would have been exported
C15_Witness ==
    \E wk \in Workers :
        LET r == req[wk]
        IN  /\ Finished(r) /\ r.resp.body = "error" /\ Exportable(r)
            /\ "append" \notin r.effects
            /\ r.order.name \notin DataRefs(sheet)

----------------------------------------------------------------------------
(* C16: two sweeps of the store are never in progress together: between a  *)
(* sweep's read of the ledger and its final rewrite no other sweep reads,  *)
(* writes markers, clears or rewrites.                                     *)

\* the handler's sweep has read the ledger and has not yet rewritten it
InSweep(r) == r.pc \in {"sweep_rows", "sweep_rewrite"}

C16_SweepsSerialized ==
    Cardinality({wk \in Workers : InSweep(req[wk])}) <= 1

----------------------------------------------------------------------------
(* C17: get_corrected_city applies its tiers in strict precedence: the     *)
(* alias of the stripped, lowercased city when it is a key of the alias    *)
(* map, whatever else matches; otherwise a close match clearing the        *)
(* cutoff, whatever the address holds; otherwise the first city of the     *)
(* list contained in the lowercased address; otherwise the city as given.  *)

IsAliasKey(s) == StrLower(StrStrip(s)) \in DOMAIN CITY_ALIASES
CloseCities(s) == {x \in Range(VALID_CITIES) : ClearsCutoff(StrLower(StrStrip(s)), x)}
CitiesInAddress(h) == {k \in DOMAIN VALID_CITIES : StrIn(VALID_CITIES[k], StrLower(h))}
FirstOf(S) == CHOOSE k \in S : \A j \in S : k <= j

C17_TiersInPrecedence ==
    city.result # NotCalled =>
        LET out == city.result.corrected
            raw == city.input_city
            hint == city.address_hint
        IN  IF IsAliasKey(raw) THEN out = CITY_ALIASES[StrLower(StrStrip(raw))]
            ELSE IF CloseCities(raw) # {} THEN out \in {StrTitle(x) : x \in CloseCities(raw)}
            ELSE IF CitiesInAddress(hint) # {}
                THEN out = StrTitle(VALID_CITIES[FirstOf(CitiesInAddress(hint))])
            ELSE out = raw

\* a city with a close match and no alias was corrected, the address
\* holding two other cities of the list
C17_Witness ==
    /\ city.result # NotCalled
    /\ ~IsAliasKey(city.input_city) /\ CloseCities(city.input_city) # {}
    /\ Cardinality(CitiesInAddress(city.address_hint)) = 2
    /\ city.result.note = "Fuzzy matched"
    /\ StrLower(city.result.corrected) \notin
           {VALID_CITIES[k] : k \in CitiesInAddress(city.address_hint)}

----------------------------------------------------------------------------
(* C18: a row a handler has appended is never removed by a sweep: when a   *)
(* sweep read the ledger before the append and clears and rewrites it      *)
(* after, the appended row's reference is still in the ledger when the     *)
(* sweep ends.                                                             *)

\* the other handler's append came after this sweep's read and before its
\* clear: its order is not in the rows the sweep read, nor in the sheet the
\* sweep has cleared (and the other handler is not rewriting the sheet)
AppendedSinceRead(r, other) ==
    /\ "append" \in other.effects /\ other.pc # "sweep_rewrite"
    /\ other.order.name \notin Range(RefsOf(r.rows))
    /\ other.order.name \notin Range(RefsOf(sheet))

C18_AppendedRowKept ==
    [][\A wk, other \in Workers :
          wk # other /\ SweepRewrites(wk) /\ AppendedSinceRead(req[wk], req[other]) =>
              req[other].order.name \in DataRefs(sheet')]_vars

----------------------------------------------------------------------------
(* C19: status markers are monotonic: once the row of an order_reference   *)
(* carries FULFILLED or CANCELLED, nothing the handlers and their sweeps   *)
(* do later leaves a row of that reference with an empty marker.           *)

MarkedRef(ref) == \E k \in DataRows(sheet, ref) : TerminalRow(sheet[k])
UnmarkedRef(ref) == \E k \in DataRows(sheet, ref) : OpenRow(sheet[k])

C19_MarkersMonotonic ==
    \A ref \in Refs : [](MarkedRef(ref) => [](~UnmarkedRef(ref)))

----------------------------------------------------------------------------
(* C20: a row appended by an export is a known reference for every later   *)
(* duplicate check, also when the ledger had no row at all at the time of  *)
(* the append: an exported order's row is never row 1, which the duplicate *)
(* check and the sweep take for the header.                                *)

C20_NoOrderInRowOne ==
    sheet # <<>> => sheet[1].ref \notin Refs

====
